---- MODULE Spec2Model ----
(***************************************************************************)
(* Model of py_sim7600's device layer (src/py_sim7600/device/__init__.py): *)
(* the frame reader Device.read_full_response, the command/response        *)
(* demultiplexer Device.send, the unsolicited-message accessor Device.urc, *)
(* Device.verify and the connection operations, run by concurrent threads  *)
(* against serial transports that behave like the repository's MockSerial  *)
(* (src/tests/unit_test/__init__.py) fed by a modem whose bytes arrive in  *)
(* arbitrary chunks: input[d] holds the bytes sent and not yet read, and   *)
(* every look at the port finds some prefix of them arrived.               *)
(*                                                                         *)
(* Text is a sequence of symbols: "\r", "\n", and payload symbols, each a  *)
(* run of payload characters that arrives in one piece (a chunk boundary   *)
(* inside such a run is read like one right before or right after it).     *)
(* Time is counted in ticks: a poll sleep (time.sleep(0.01)) lasts         *)
(* PollTicks, the grace sleep (time.sleep(0.1)) GraceTicks.                *)
(***************************************************************************)
EXTENDS Integers, Sequences, FiniteSets, TLC

\* ------------------------------------------------------------------ bounds
\* Symbols in a payload and payloads in a buffer, where the segmentation is
\* checked on every buffer of adjacent frames.
MaxPayload == 2
MaxFrames == 2
\* Calls into the device layer over one behaviour of concurrent threads, and
\* over one behaviour of a single thread.
MaxCalls == 2
MaxSeqCalls == 3
\* Late arrivals over one behaviour: unsolicited frames the modem emits on its
\* own, and looks at a port that find only a part of the bytes sent to it
\* arrived (the rest arrives later).
MaxLate == 1
\* Ticks of a poll sleep and of the grace sleep.
PollTicks == 1
GraceTicks == 2
\* The timeout (in ticks) callers pass, and read_full_response's default.
TimeoutTicks == 5

\* The threads that call into the device layer, and the Device instances.
Threads == {1, 2}
Devices == {1, 2}

\* ------------------------------------------------------------------- text
CR == "\r"
LF == "\n"
\* The pattern every caller of this layer brackets responses with: '\r\n'.
Pattern == <<CR, LF>>
\* Python's None where a str is expected, and where a list[str] is expected.
NoneText == <<"None">>

OK == <<"OK">>
ERROR == <<"ERROR">>
RING == <<"RING">>
FIRSTLINE == <<"FIRSTLINE">>
SECONDLINE == <<"SECONDLINE">>
AT == <<"AT">>

\* s[a..b] as a sequence (empty when b < a).
Slice(s, a, b) == IF b < a THEN <<>> ELSE SubSeq(s, a, b)

\* p occurs in s at index i.
At(s, i, p) == i >= 1 /\ i + Len(p) - 1 <= Len(s) /\ SubSeq(s, i, i + Len(p) - 1) = p

\* Python's `p in s` on str.
Contains(p, s) == \E i \in 1..(Len(s) + 1) : At(s, i, p)

\* Python's s.endswith(p).
EndsWith(s, p) == Len(s) >= Len(p) /\ At(s, Len(s) - Len(p) + 1, p)

\* Python's `$` without re.MULTILINE at index i (the next character to read):
\* the end of the string, or just before a newline that ends the string.
DollarAt(s, i) == i = Len(s) + 1 \/ (i = Len(s) /\ s[i] = LF)

\* The lookahead (?=pattern|$) at index i.
LookAhead(s, i, p) == At(s, i, p) \/ DollarAt(s, i)

\* A match of  pattern(.+?)pattern(?=pattern|$)  that starts at i ends its group
\* at the smallest j with the closing pattern at j, at least one character in
\* the group (re.DOTALL: any characters), and the lookahead after the pattern.
GroupEnds(s, i, p) ==
    {j \in (i + Len(p) + 1)..(Len(s) - Len(p) + 1) :
        At(s, j, p) /\ LookAhead(s, j + Len(p), p)}

\* The greedy group (.+): the longest match.
Max(S) == CHOOSE x \in S : \A y \in S : x >= y

\* The non-greedy group (.+?): the shortest match.
Min(S) == CHOOSE x \in S : \A y \in S : x <= y

\* re.findall from index i on: the groups of the non-overlapping matches, left to
\* right; the scan resumes at the end of a match, the lookahead not consumed.
RECURSIVE FindAllFrom(_, _, _)
FindAllFrom(s, i, p) ==
    IF i > Len(s) THEN <<>>
    ELSE IF At(s, i, p) /\ GroupEnds(s, i, p) # {}
         THEN LET j == Min(GroupEnds(s, i, p))
              IN  <<Slice(s, i + Len(p), j - 1)>> \o FindAllFrom(s, j + Len(p), p)
         ELSE FindAllFrom(s, i + 1, p)

\* A reader that cuts the buffer at every pattern and keeps the non-empty pieces.
RECURSIVE SplitFrom(_, _, _, _)
SplitFrom(s, i, start, p) ==
    IF i > Len(s) THEN (IF start <= Len(s) THEN <<Slice(s, start, Len(s))>> ELSE <<>>)
    ELSE IF At(s, i, p)
         THEN (IF start < i THEN <<Slice(s, start, i - 1)>> ELSE <<>>)
              \o SplitFrom(s, i + Len(p), i + Len(p), p)
         ELSE SplitFrom(s, i + 1, start, p)

FindAllSplit(s, p) == SplitFrom(s, 1, 1, p)

\* Lines 176-183: the compiled pattern and re.findall.
FindAll(s, p) == FindAllFrom(s, 1, p)

\* One frame on the wire: pattern payload pattern.
Bracket(payload) == Pattern \o payload \o Pattern


\* ------------------------------------------------------------------ state
VARIABLES
    urc,        \* Device.__urc: the class-level list of unsolicited frames
    sem,        \* the value of every semaphore object
    semRef,     \* Device.__sem: the semaphore object the class attribute names
    is_rpi,     \* the module's is_rpi
    is_on,      \* is_on[d]: Device.__is_on
    pulses,     \* pulses[d]: pulses given on the power key (GPIO HIGH then LOW)
    is_open,    \* is_open[d]: the serial port's is_open
    input,      \* input[d]: the bytes sent to port d and not yet read; in_waiting
                \* is the length of the prefix of them that has arrived
    output,     \* output[d]: the commands written to the serial port, in order
    late,       \* late arrivals: unsolicited frames emitted and partial arrivals
    pc,         \* pc[t]: the place of thread t in the call it runs
    loc,        \* loc[t]: the parameters and locals of the call thread t runs
    nextSeq,    \* arrival stamp of the next frame segmented from a transport
    delivered,  \* arrival stamps of the frames urc has popped, in the order popped
    log,        \* the finished calls of a single-threaded run, in order
    run,        \* the run: the threads that call, the instances they call on,
                \* how many calls they make, and what the modem answers
    ncalls,     \* calls begun
    quality     \* the SignalQuality comparison under evaluation: self, other,
                \* and how self < other ended

vars == <<urc, sem, semRef, is_rpi, is_on, pulses, is_open, input, output,
          late, pc, loc, nextSeq, delivered, log, run, ncalls, quality>>

\* The variables of the class, of the instances, of the transports, of the books.
classVars == <<urc, sem, semRef>>
devVars == <<is_rpi, is_on, pulses, is_open>>
ioVars == <<input, output, late>>
bookVars == <<nextSeq, delivered, log, run, ncalls, quality>>

\* The semaphore objects: the one the class body creates, and one a caller may
\* hand to set_lock.
Locks == {"initial", "replacement"}

\* A frame as the reader returns it: its text, and the stamp of its arrival.
Frame(m, n) == [msg |-> m, seq |-> n]
\* None where read_full_response returns list[str] | None.
NoneFrames == <<Frame(NoneText, 0)>>
Msgs(fs) == [i \in DOMAIN fs |-> fs[i].msg]
Seqs(fs) == [i \in DOMAIN fs |-> fs[i].seq]

\* Exceptions: the class raised, what raised it, and the text it carries.
Exc(type, why, msg) == [type |-> type, why |-> why, msg |-> msg]
NoExc == Exc("None", "None", <<>>)

\* Return values.
RetNone == [kind |-> "none", text |-> <<>>, list |-> <<>>, bool |-> FALSE]
RetText(m) == [RetNone EXCEPT !.kind = "text", !.text = m]
RetList(fs) == [RetNone EXCEPT !.kind = "list", !.list = fs]
RetAlias == [RetNone EXCEPT !.kind = "alias"]
RetBool(b) == [RetNone EXCEPT !.kind = "bool", !.bool = b]

\* The locals of a thread outside any call; waiting is what the port's input
\* buffer held (in_waiting) when the call wrote its command.
Blank ==
    [op |-> "none", dev |-> 1, back |-> NoneText, error_pattern |-> <<NoneText>>,
     timeout |-> 0, clear |-> TRUE, lock |-> "initial",
     accumulated_data |-> <<>>, response_started |-> FALSE, elapsed |-> 0,
     current_length |-> 0, read |-> "none",
     response |-> NoneFrames, idx |-> 0, result_message |-> NoneText,
     error_message |-> <<>>, responses |-> <<>>, was_open |-> FALSE,
     waiting |-> 0, ret |-> RetNone, exc |-> NoExc]

\* ------------------------------------------------------------ environment
\* The timeouts callers pass, in ticks; read_full_response's default.
Timeouts == {TimeoutTicks}
DefaultTimeout == TimeoutTicks

\* The success markers and the error-marker lists callers pass.
Backs == {NoneText, OK}
ErrorPatterns == {<<NoneText>>, <<ERROR>>}

\* What the modem sends back for one command: nothing; a result frame; an error
\* frame before or after a result frame; a result frame and an unsolicited
\* frame; two lines that share one pattern; an echo without any pattern; the
\* pattern twice with nothing between.
Responses ==
    {<<>>,
     Bracket(OK),
     Bracket(ERROR) \o Bracket(OK),
     Bracket(OK) \o Bracket(ERROR),
     Bracket(OK) \o Bracket(RING),
     Pattern \o FIRSTLINE \o Pattern \o SECONDLINE \o Pattern,
     AT,
     Pattern \o Pattern}

\* What the modem of a plain session sends back: a result frame, alone or with an
\* unsolicited frame.
Session == {Bracket(OK), Bracket(OK) \o Bracket(RING)}

\* The frame the modem emits on its own.
Unsolicited == Bracket(RING)

\* ---------------------------------------------------------- SignalQuality
\* src/py_sim7600/model/signal_quality.py.  The strength and the bit error rate
\* that stand for "undefined" (line 38).
UndefinedStrength == -999
UndefinedBer == 99

\* SignalQuality.__init__: the values compared, of both signal types, with
\* defined and undefined strengths and bit error rates.
Strengths == {UndefinedStrength, -113, -51}
BitErrorRates == {0, 7, UndefinedBer}
SignalQuality(strength, is_rscp, bit_error_rate) ==
    [strength |-> strength, is_rscp |-> is_rscp, bit_error_rate |-> bit_error_rate]
SignalQualities ==
    {SignalQuality(st, r, b) : st \in Strengths, r \in BOOLEAN, b \in BitErrorRates}

\* A comparison that orders by the numbers alone.
LtByNumbers(self, other) ==
    IF self.is_rscp # other.is_rscp THEN "TypeError"
    ELSE IF self.strength = other.strength
    THEN (IF self.bit_error_rate > other.bit_error_rate THEN "True" ELSE "False")
    ELSE IF self.strength < other.strength THEN "True" ELSE "False"

\* SignalQuality.__lt__, lines 32-48: what self < other returns, or raises.
Lt(self, other) ==
    IF self.is_rscp # other.is_rscp THEN "TypeError"
    ELSE IF self.strength = UndefinedStrength \/ self.bit_error_rate = UndefinedBer
    THEN "True"
    ELSE IF other.strength = UndefinedStrength \/ other.bit_error_rate = UndefinedBer
    THEN "False"
    ELSE IF self.strength = other.strength
    THEN (IF self.bit_error_rate > other.bit_error_rate THEN "True" ELSE "False")
    ELSE IF self.strength < other.strength THEN "True" ELSE "False"

\* No comparison under evaluation.
NoCompare ==
    [self |-> SignalQuality(UndefinedStrength, FALSE, UndefinedBer),
     other |-> SignalQuality(UndefinedStrength, FALSE, UndefinedBer),
     result |-> "none"]

\* ----------------------------------------------------------- construction
\* The class body (lines 25-26) and Device.__init__: a port that is open (a
\* serial.Serial built from a port name) or closed (a serial_device handed in,
\* like the tests' MockSerial), its input buffer reset, powered unless on a
\* Raspberry Pi.
InitProgram ==
    /\ urc = <<>>
    /\ sem = [l \in Locks |-> 1]
    /\ semRef = "initial"
    /\ is_rpi \in BOOLEAN
    /\ is_on = [d \in Devices |-> ~is_rpi]
    /\ pulses = [d \in Devices |-> 0]
    /\ is_open \in [Devices -> BOOLEAN]
    /\ input = [d \in Devices |-> <<>>]
    /\ output = [d \in Devices |-> <<>>]
    /\ late = 0
    /\ pc = [t \in Threads |-> "idle"]
    /\ loc = [t \in Threads |-> Blank]
    /\ nextSeq = 1
    /\ delivered = <<>>
    /\ log = <<>>
    /\ ncalls = 0
    /\ quality = NoCompare

\* The ports of the instances a run never calls on stay closed.
Connected == \A d \in Devices \ run.devices : ~is_open[d]

\* Concurrent threads, and one thread on its own.
Init ==
    /\ InitProgram
    /\ run = [threads |-> Threads, devices |-> {1}, calls |-> MaxCalls, menu |-> Responses]
    /\ Connected

InitSeq ==
    /\ InitProgram
    /\ run = [threads |-> {1}, devices |-> {1}, calls |-> MaxSeqCalls, menu |-> Session]
    /\ Connected

InitOne ==
    /\ InitProgram
    /\ run = [threads |-> {1}, devices |-> {1}, calls |-> 1, menu |-> Responses]
    /\ Connected

\* ------------------------------------------------------------- the modem
\* The modem emits an unsolicited frame; an open port receives it.
Inject(d) ==
    /\ d \in run.devices
    /\ is_open[d]
    /\ late < MaxLate
    /\ late' = late + 1
    /\ input' = [input EXCEPT ![d] = @ \o Unsolicited]
    /\ UNCHANGED <<classVars, devVars, output, pc, loc, bookVars>>

\* What a look at port d may find arrived (in_waiting): all the bytes sent, or a
\* part of them; what then stays; the count of the late arrivals.
Arrived(d) == {k \in 0..Len(input[d]) : k = Len(input[d]) \/ late < MaxLate}
Rest(d, k) == Slice(input[d], k + 1, Len(input[d]))
Looked(d, k) == IF k < Len(input[d]) THEN late + 1 ELSE late

\* ------------------------------------------------------------- the calls
\* The books at the beginning of a call by t.
BeginCall(t) ==
    /\ t \in run.threads
    /\ ncalls < run.calls
    /\ ncalls' = ncalls + 1
    /\ UNCHANGED <<nextSeq, delivered, log, run, quality>>

\* The locals of a call that starts.
Started(t, op, d) == [Blank EXCEPT !.op = op, !.dev = d]

\* The locals of a call that ends by raising e, and by returning r.
Raise(l, e) == [l EXCEPT !.exc = e, !.elapsed = 0]
Return(l, r) == [l EXCEPT !.ret = r, !.elapsed = 0]

\* An acquire that never waits.
CanAcquireAny(l) == TRUE

\* Semaphore.acquire succeeds on a semaphore whose value is positive.
CanAcquire(l) == sem[l] > 0
Acquired(l) == [sem EXCEPT ![l] = @ - 1]

\* A block that does not give the semaphore back.
Kept(l) == sem

\* The end of a `with` block, by its last line or by an exception.
Released(l) == [sem EXCEPT ![l] = @ + 1]

\* A send that does not look at the power flag.
PoweredAlways(d) == TRUE

\* Line 210: self.__is_on.
Powered(d) == is_on[d]

\* send, line 210: refused when the device is not on; else on to the lock.
Send(t, d, back, error_pattern, timeout) ==
    /\ pc[t] = "idle"
    /\ d \in run.devices
    /\ BeginCall(t)
    /\ LET l == [Started(t, "send", d) EXCEPT !.back = back,
                    !.error_pattern = error_pattern, !.timeout = timeout]
       IN  IF ~Powered(d)
           THEN /\ loc' = [loc EXCEPT ![t] =
                              Raise(l, Exc("DeviceException", "NotPowered", <<>>))]
                /\ pc' = [pc EXCEPT ![t] = "done"]
           ELSE /\ loc' = [loc EXCEPT ![t] = l]
                /\ pc' = [pc EXCEPT ![t] = "acquire"]
    /\ UNCHANGED <<classVars, devVars, ioVars>>

\* The urc property, line 262: straight to the lock; clear is the parameter.
Urc(t, d, clear) ==
    /\ pc[t] = "idle"
    /\ d \in run.devices
    /\ BeginCall(t)
    /\ loc' = [loc EXCEPT ![t] =
                  [Started(t, "urc", d) EXCEPT !.clear = clear,
                      !.timeout = DefaultTimeout]]
    /\ pc' = [pc EXCEPT ![t] = "acquire"]
    /\ UNCHANGED <<classVars, devVars, ioVars>>

\* `with self.__sem:` in send, urc and verify: the thread waits for the
\* semaphore the class attribute names and takes it.
Acquire(t) ==
    /\ pc[t] = "acquire"
    /\ CanAcquire(semRef)
    /\ sem' = Acquired(semRef)
    /\ loc' = [loc EXCEPT ![t].lock = semRef]
    /\ pc' = [pc EXCEPT ![t] = IF loc[t].op = "urc" THEN "read" ELSE "write"]
    /\ UNCHANGED <<urc, semRef, devVars, ioVars, bookVars>>

\* A urc without its try/except: the read's timeout reaches the caller.
AfterFailureRaised(l, kind) ==
    LET raw == IF kind = "ReadTimeout"
               THEN Exc("DeviceException", "ReadTimeout", <<>>)
               ELSE Exc("PortNotOpenError", "Transport", <<>>)
        failed == [l EXCEPT !.read = kind]
    IN  IF l.op = "send"
        THEN [pc |-> "done", loc |-> Raise(failed, Exc("DeviceException", kind, <<>>))]
        ELSE [pc |-> "done", loc |-> Raise(failed, raw)]

\* A send without its try/except: what the block raised reaches the caller as
\* it is.
AfterFailureUnwrapped(l, kind) ==
    LET raw == IF kind = "ReadTimeout"
               THEN Exc("DeviceException", "ReadTimeout", <<>>)
               ELSE Exc("PortNotOpenError", "Transport", <<>>)
        failed == [l EXCEPT !.read = kind]
    IN  IF l.op = "urc" /\ kind = "ReadTimeout"
        THEN IF l.clear
             THEN [pc |-> "u_check", loc |-> [failed EXCEPT !.elapsed = 0]]
             ELSE [pc |-> "done", loc |-> Return(failed, RetAlias)]
        ELSE [pc |-> "done", loc |-> Raise(failed, raw)]

\* What follows a failure inside the `with` block, by the call that runs it.
\* kind is "ReadTimeout" (line 194) or "Transport" (the port raising
\* PortNotOpenError).  send wraps every exception (lines 217-218); urc swallows
\* DeviceException alone (lines 267-268); verify catches nothing.
AfterFailure(l, kind) ==
    LET raw == IF kind = "ReadTimeout"
               THEN Exc("DeviceException", "ReadTimeout", <<>>)
               ELSE Exc("PortNotOpenError", "Transport", <<>>)
        failed == [l EXCEPT !.read = kind]
    IN  CASE l.op = "send" ->
               [pc |-> "done",
                loc |-> Raise(failed, Exc("DeviceException", kind, <<>>))]
          [] l.op = "urc" /\ kind = "ReadTimeout" ->
               IF l.clear
               THEN [pc |-> "u_check", loc |-> [failed EXCEPT !.elapsed = 0]]
               ELSE [pc |-> "done", loc |-> Return(failed, RetAlias)]
          [] OTHER -> [pc |-> "done", loc |-> Raise(failed, raw)]

\* A failure that keeps what was read: the frames of the buffer join the queue.
FailsSalvaging(t, kind) ==
    /\ sem' = Released(loc[t].lock)
    /\ pc' = [pc EXCEPT ![t] = AfterFailure(loc[t], kind).pc]
    /\ loc' = [loc EXCEPT ![t] = AfterFailure(loc[t], kind).loc]
    /\ LET matches == FindAll(loc[t].accumulated_data, Pattern)
       IN  urc' = urc \o [i \in DOMAIN matches |-> Frame(matches[i], 0)]
    /\ UNCHANGED semRef

\* The exception leaves the `with` block of thread t: the semaphore it took is
\* released.
Fails(t, kind) ==
    /\ sem' = Released(loc[t].lock)
    /\ pc' = [pc EXCEPT ![t] = AfterFailure(loc[t], kind).pc]
    /\ loc' = [loc EXCEPT ![t] = AfterFailure(loc[t], kind).loc]
    /\ UNCHANGED <<urc, semRef>>

\* serial.write (lines 61 and 215): a closed port raises; an open one records
\* the command, and the modem answers it; what the input buffer holds stays in
\* it, before the answer.  Then read_full_response is called.
Write(t) ==
    /\ pc[t] = "write"
    /\ LET d == loc[t].dev
           command == IF loc[t].op = "verify" THEN "AT" ELSE "CMD"
       IN  IF ~is_open[d]
           THEN /\ Fails(t, "Transport")
                /\ UNCHANGED <<ioVars>>
           ELSE /\ output' = [output EXCEPT ![d] = Append(@, command)]
                /\ \E r \in run.menu : input' = [input EXCEPT ![d] = @ \o r]
                /\ loc' = [loc EXCEPT ![t].waiting = Len(input[d])]
                /\ pc' = [pc EXCEPT ![t] = "read"]
                /\ UNCHANGED <<classVars, late>>
    /\ UNCHANGED <<devVars, bookVars>>

\* The `while True:` of line 162.
TimedOutNever(l) == FALSE

\* Line 163: the loop ends once the timeout has elapsed.
TimedOut(l) == l.elapsed >= l.timeout

\* time.sleep (lines 160, 171, 192) moves the clock the reader compares with its
\* timeout; past the end of every timeout the clock need not be told apart.
Slept(elapsed, ticks) ==
    IF elapsed + ticks > TimeoutTicks + GraceTicks THEN TimeoutTicks + GraceTicks
    ELSE elapsed + ticks

\* read_full_response, lines 156-160: empty buffer, then the first sleep.
ReadStart(t) ==
    /\ pc[t] = "read"
    /\ loc' = [loc EXCEPT ![t].accumulated_data = <<>>,
                          ![t].response_started = FALSE,
                          ![t].elapsed = Slept(0, GraceTicks)]
    /\ pc' = [pc EXCEPT ![t] = "r_loop"]
    /\ UNCHANGED <<classVars, devVars, ioVars, bookVars>>

\* Line 168: the buffer looks complete.
Tentative(data, started) == started /\ EndsWith(data, Pattern) /\ data # Pattern

\* One iteration of the loop of lines 163-192, up to its sleep; k bytes have
\* arrived.
ReadLoop(t) ==
    /\ pc[t] = "r_loop"
    /\ LET l == loc[t]
           d == l.dev
       IN  IF TimedOut(l)
           THEN /\ Fails(t, "ReadTimeout")
                /\ UNCHANGED <<input, late>>
           ELSE \E k \in Arrived(d) :
                LET data == l.accumulated_data \o Slice(input[d], 1, k)
                    started == l.response_started \/ Contains(Pattern, data)
                IN  /\ late' = Looked(d, k)
                    /\ IF k > 0
                       THEN IF ~is_open[d]
                            THEN /\ Fails(t, "Transport")
                                 /\ UNCHANGED input
                            ELSE /\ input' = [input EXCEPT ![d] = Rest(d, k)]
                                 /\ IF Tentative(data, started)
                                    THEN /\ loc' = [loc EXCEPT
                                                ![t].accumulated_data = data,
                                                ![t].response_started = started,
                                                ![t].current_length = Len(data),
                                                ![t].elapsed = Slept(@, GraceTicks)]
                                         /\ pc' = [pc EXCEPT ![t] = "r_grace"]
                                    ELSE /\ loc' = [loc EXCEPT
                                                ![t].accumulated_data = data,
                                                ![t].response_started = started,
                                                ![t].elapsed = Slept(@, PollTicks)]
                                         /\ pc' = pc
                                 /\ UNCHANGED classVars
                       ELSE /\ loc' = [loc EXCEPT ![t].elapsed = Slept(@, PollTicks)]
                            /\ UNCHANGED <<classVars, input, pc>>
    /\ UNCHANGED <<devVars, output, bookVars>>

\* The frames of a final buffer, stamped from n on; None when there is none
\* (lines 176-188).
Stamped(ms, n) == [i \in DOMAIN ms |-> Frame(ms[i], n + i - 1)]
Segment(data, n) ==
    LET matches == FindAll(data, Pattern)
    IN  IF matches # <<>> THEN Stamped(matches, n) ELSE NoneFrames

\* Where read_full_response's caller goes on with the response: send leaves the
\* `with` block and classifies, urc extends the queue inside it, verify leaves it.
AfterRead(l) ==
    CASE l.op = "send" -> "classify"
      [] l.op = "urc" -> "u_extend"
      [] OTHER -> "v_finish"

\* Lines 171-190, after the grace sleep: read the k bytes that came; none came:
\* segment and return; some came: back to the loop.
ReadGrace(t) ==
    /\ pc[t] = "r_grace"
    /\ LET l == loc[t]
           d == l.dev
       IN  IF ~is_open[d]
           THEN /\ Fails(t, "Transport")
                /\ UNCHANGED <<input, late, nextSeq>>
           ELSE \E k \in Arrived(d) :
                LET data == l.accumulated_data \o Slice(input[d], 1, k)
                    frames == Segment(data, nextSeq)
                IN  /\ late' = Looked(d, k)
                    /\ input' = [input EXCEPT ![d] = Rest(d, k)]
                    /\ IF Len(data) = l.current_length
                       THEN /\ loc' = [loc EXCEPT ![t].response = frames,
                                          ![t].read = "returned",
                                          ![t].idx = 1,
                                          ![t].elapsed = 0]
                            /\ pc' = [pc EXCEPT ![t] = AfterRead(l)]
                            /\ sem' = IF l.op = "urc" THEN sem ELSE Released(l.lock)
                            /\ nextSeq' = IF frames = NoneFrames THEN nextSeq
                                          ELSE nextSeq + Len(frames)
                       ELSE /\ loc' = [loc EXCEPT ![t].accumulated_data = data]
                            /\ pc' = [pc EXCEPT ![t] = "r_loop"]
                            /\ UNCHANGED <<sem, nextSeq>>
                    /\ UNCHANGED <<urc, semRef>>
    /\ UNCHANGED <<devVars, output, delivered, log, run, ncalls, quality>>

\* Line 225: the frame holds one of the caller's error markers.
IsError(message, error_pattern) ==
    /\ error_pattern # <<NoneText>>
    /\ \E i \in DOMAIN error_pattern : Contains(error_pattern[i], message)

\* A send that takes the first frame without an error marker for the result,
\* whatever the success marker.
ClassOfFirstFrame(message, result_message, back, error_pattern) ==
    IF IsError(message, error_pattern) THEN "error"
    ELSE IF result_message # NoneText THEN "urc"
    ELSE "result"

\* Lines 225-242: what send does with one frame, given the result claimed so far.
ClassOf(message, result_message, back, error_pattern) ==
    IF IsError(message, error_pattern) THEN "error"
    ELSE IF result_message # NoneText THEN "urc"
    ELSE IF back # NoneText /\ Contains(back, message) THEN "result"
    ELSE IF back = NoneText THEN "result"
    ELSE "urc"

\* A send that returns the result it claimed before it looks at the error.
SendOutcomeResultFirst(l) ==
    IF l.response # NoneFrames /\ l.result_message # NoneText
    THEN Return(l, RetText(l.result_message))
    ELSE IF l.response # NoneFrames /\ l.error_message # <<>>
    THEN Raise(l, Exc("DeviceException", "CommandRejected", l.error_message))
    ELSE Raise(l, Exc("DeviceException", "NoValidResponse", <<>>))

\* A send without its last line: it falls off the end and returns None.
SendOutcomeNoRaise(l) ==
    IF l.response # NoneFrames /\ l.error_message # <<>>
    THEN Raise(l, Exc("DeviceException", "CommandRejected", l.error_message))
    ELSE IF l.response # NoneFrames /\ l.result_message # NoneText
    THEN Return(l, RetText(l.result_message))
    ELSE Return(l, RetNone)

\* Lines 244-250: how send ends once every frame is classified.
SendOutcome(l) ==
    IF l.response # NoneFrames /\ l.error_message # <<>>
    THEN Raise(l, Exc("DeviceException", "CommandRejected", l.error_message))
    ELSE IF l.response # NoneFrames /\ l.result_message # NoneText
    THEN Return(l, RetText(l.result_message))
    ELSE Raise(l, Exc("DeviceException", "NoValidResponse", <<>>))

\* A send whose scan ends at the first frame that holds an error marker.
ClassifyToError(t) ==
    /\ pc[t] = "classify"
    /\ LET l == loc[t]
       IN  IF l.response # NoneFrames /\ l.idx <= Len(l.response)
           THEN LET message == l.response[l.idx]
                    class == ClassOf(message.msg, l.result_message, l.back,
                                     l.error_pattern)
                IN  /\ loc' = [loc EXCEPT ![t] =
                          [l EXCEPT !.idx = IF class = "error"
                                            THEN Len(l.response) + 1 ELSE @ + 1,
                              !.error_message =
                                  IF class = "error" THEN message.msg ELSE @,
                              !.result_message =
                                  IF class = "result" THEN message.msg ELSE @]]
                    /\ urc' = IF class = "urc" THEN Append(urc, message) ELSE urc
                    /\ pc' = pc
           ELSE /\ loc' = [loc EXCEPT ![t] = SendOutcome(l)]
                /\ pc' = [pc EXCEPT ![t] = "done"]
                /\ urc' = urc
    /\ UNCHANGED <<sem, semRef, devVars, ioVars, bookVars>>

\* send, lines 220-250, outside the `with` block: one frame per step, then the
\* outcome.
Classify(t) ==
    /\ pc[t] = "classify"
    /\ LET l == loc[t]
       IN  IF l.response # NoneFrames /\ l.idx <= Len(l.response)
           THEN LET message == l.response[l.idx]
                    class == ClassOf(message.msg, l.result_message, l.back,
                                     l.error_pattern)
                IN  /\ loc' = [loc EXCEPT ![t] =
                          [l EXCEPT !.idx = @ + 1,
                              !.error_message =
                                  IF class = "error" THEN message.msg ELSE @,
                              !.result_message =
                                  IF class = "result" THEN message.msg ELSE @]]
                    /\ urc' = IF class = "urc" THEN Append(urc, message) ELSE urc
                    /\ pc' = pc
           ELSE /\ loc' = [loc EXCEPT ![t] = SendOutcome(l)]
                /\ pc' = [pc EXCEPT ![t] = "done"]
                /\ urc' = urc
    /\ UNCHANGED <<sem, semRef, devVars, ioVars, bookVars>>

\* urc, lines 265-266 and the end of the `with` block: the frames read join the
\* queue, the semaphore is released; line 272 picks the drain or the alias.
UrcExtend(t) ==
    /\ pc[t] = "u_extend"
    /\ LET l == loc[t]
       IN  /\ urc' = IF l.response # NoneFrames THEN urc \o l.response ELSE urc
           /\ sem' = Released(l.lock)
           /\ IF l.clear
              THEN /\ pc' = [pc EXCEPT ![t] = "u_check"]
                   /\ loc' = loc
              ELSE /\ pc' = [pc EXCEPT ![t] = "done"]
                   /\ loc' = [loc EXCEPT ![t] = Return(l, RetAlias)]
    /\ UNCHANGED <<semRef, devVars, ioVars, bookVars>>

\* urc, line 274: the test of the while loop.
UrcCheck(t) ==
    /\ pc[t] = "u_check"
    /\ IF urc # <<>>
       THEN /\ pc' = [pc EXCEPT ![t] = "u_pop"]
            /\ loc' = loc
       ELSE /\ pc' = [pc EXCEPT ![t] = "done"]
            /\ loc' = [loc EXCEPT ![t] = Return(@, RetList(@.responses))]
    /\ UNCHANGED <<classVars, devVars, ioVars, bookVars>>

\* urc, line 275: pop(0) and append; pop on a list emptied meanwhile raises.
UrcPop(t) ==
    /\ pc[t] = "u_pop"
    /\ IF urc = <<>>
       THEN /\ pc' = [pc EXCEPT ![t] = "done"]
            /\ loc' = [loc EXCEPT ![t] = Raise(@, Exc("IndexError", "PopEmpty", <<>>))]
            /\ UNCHANGED <<urc, delivered>>
       ELSE /\ pc' = [pc EXCEPT ![t] = "u_check"]
            /\ loc' = [loc EXCEPT ![t].responses = Append(@, Head(urc))]
            /\ urc' = Tail(urc)
            /\ delivered' = Append(delivered, Head(urc).seq)
    /\ UNCHANGED <<sem, semRef, devVars, ioVars, nextSeq, log, run, ncalls, quality>>

\* Device.verify, lines 55-58 (the read of is_open).
Verify(t, d) ==
    /\ pc[t] = "idle"
    /\ d \in run.devices
    /\ BeginCall(t)
    /\ loc' = [loc EXCEPT ![t] =
                  [Started(t, "verify", d) EXCEPT !.was_open = is_open[d],
                      !.timeout = DefaultTimeout]]
    /\ pc' = [pc EXCEPT ![t] = IF is_open[d] THEN "acquire" ELSE "v_open"]
    /\ UNCHANGED <<classVars, devVars, ioVars>>

\* Device.verify, line 58: self.open() on the port found closed.
VerifyOpen(t) ==
    /\ pc[t] = "v_open"
    /\ LET d == loc[t].dev
       IN  IF is_open[d]
           THEN /\ pc' = [pc EXCEPT ![t] = "done"]
                /\ loc' = [loc EXCEPT ![t] =
                              Raise(@, Exc("DeviceException", "OpenFailed", <<>>))]
                /\ UNCHANGED is_open
           ELSE /\ pc' = [pc EXCEPT ![t] = "acquire"]
                /\ is_open' = [is_open EXCEPT ![d] = TRUE]
                /\ loc' = loc
    /\ UNCHANGED <<classVars, is_rpi, is_on, pulses, ioVars, bookVars>>

\* Device.verify, lines 64-67: close the port found closed; 'OK' in response
\* is list membership, and raises TypeError on None.
VerifyFinish(t) ==
    /\ pc[t] = "v_finish"
    /\ LET l == loc[t]
       IN  /\ is_open' = IF l.was_open THEN is_open
                         ELSE [is_open EXCEPT ![l.dev] = FALSE]
           /\ loc' = [loc EXCEPT ![t] =
                  IF l.response = NoneFrames
                  THEN Raise(l, Exc("TypeError", "NoneResponse", <<>>))
                  ELSE Return(l, RetBool(\E i \in DOMAIN l.response :
                                             l.response[i].msg = OK))]
    /\ pc' = [pc EXCEPT ![t] = "done"]
    /\ UNCHANGED <<classVars, is_rpi, is_on, pulses, ioVars, bookVars>>

\* An open that, like close, accepts a port already in the state asked for.
OpenAgain(t, d) ==
    /\ pc[t] = "idle"
    /\ d \in run.devices
    /\ BeginCall(t)
    /\ loc' = [loc EXCEPT ![t] = Started(t, "open", d)]
    /\ is_open' = [is_open EXCEPT ![d] = TRUE]
    /\ pc' = [pc EXCEPT ![t] = "done"]
    /\ UNCHANGED <<classVars, is_rpi, is_on, pulses, ioVars>>

\* Device.open, lines 88-91: the port refuses a second open.
Open(t, d) ==
    /\ pc[t] = "idle"
    /\ d \in run.devices
    /\ BeginCall(t)
    /\ IF is_open[d]
       THEN /\ loc' = [loc EXCEPT ![t] = Raise(Started(t, "open", d),
                          Exc("DeviceException", "OpenFailed", <<>>))]
            /\ UNCHANGED is_open
       ELSE /\ loc' = [loc EXCEPT ![t] = Started(t, "open", d)]
            /\ is_open' = [is_open EXCEPT ![d] = TRUE]
    /\ pc' = [pc EXCEPT ![t] = "done"]
    /\ UNCHANGED <<classVars, is_rpi, is_on, pulses, ioVars>>

\* A close that, like open, refuses a port already in the state asked for.
CloseOnce(t, d) ==
    /\ pc[t] = "idle"
    /\ d \in run.devices
    /\ BeginCall(t)
    /\ IF ~is_open[d]
       THEN /\ loc' = [loc EXCEPT ![t] = Raise(Started(t, "close", d),
                          Exc("DeviceException", "CloseFailed", <<>>))]
            /\ UNCHANGED is_open
       ELSE /\ loc' = [loc EXCEPT ![t] = Started(t, "close", d)]
            /\ is_open' = [is_open EXCEPT ![d] = FALSE]
    /\ pc' = [pc EXCEPT ![t] = "done"]
    /\ UNCHANGED <<classVars, is_rpi, is_on, pulses, ioVars>>

\* Device.close, lines 99-102.
Close(t, d) ==
    /\ pc[t] = "idle"
    /\ d \in run.devices
    /\ BeginCall(t)
    /\ loc' = [loc EXCEPT ![t] = Started(t, "close", d)]
    /\ is_open' = [is_open EXCEPT ![d] = FALSE]
    /\ pc' = [pc EXCEPT ![t] = "done"]
    /\ UNCHANGED <<classVars, is_rpi, is_on, pulses, ioVars>>

\* Device.power_on, lines 112-124.
PowerOn(t, d) ==
    /\ pc[t] = "idle"
    /\ d \in run.devices
    /\ BeginCall(t)
    /\ IF is_rpi
       THEN /\ pulses' = [pulses EXCEPT ![d] = @ + 1]
            /\ \E k \in Arrived(d) :
                  /\ input' = [input EXCEPT ![d] = Rest(d, k)]
                  /\ late' = Looked(d, k)
            /\ is_on' = [is_on EXCEPT ![d] = TRUE]
            /\ loc' = [loc EXCEPT ![t] = Started(t, "power_on", d)]
       ELSE /\ loc' = [loc EXCEPT ![t] = Raise(Started(t, "power_on", d),
                          Exc("DeviceException", "NoGPIO", <<>>))]
            /\ UNCHANGED <<pulses, input, late, is_on>>
    /\ pc' = [pc EXCEPT ![t] = "done"]
    /\ UNCHANGED <<classVars, is_rpi, is_open, output>>

\* Device.power_down, lines 134-143.
PowerDown(t, d) ==
    /\ pc[t] = "idle"
    /\ d \in run.devices
    /\ BeginCall(t)
    /\ IF is_rpi /\ is_on[d]
       THEN /\ pulses' = [pulses EXCEPT ![d] = @ + 1]
            /\ loc' = [loc EXCEPT ![t] = Started(t, "power_down", d)]
       ELSE /\ loc' = [loc EXCEPT ![t] = Raise(Started(t, "power_down", d),
                          Exc("DeviceException",
                              IF is_rpi THEN "NotPowered" ELSE "NoGPIO", <<>>))]
            /\ UNCHANGED pulses
    /\ pc' = [pc EXCEPT ![t] = "done"]
    /\ UNCHANGED <<classVars, is_rpi, is_on, is_open, ioVars>>

\* Device.set_lock, lines 281-283: the class attribute names the semaphore the
\* caller hands in; the one it named before stays with the threads that took it.
SetLock(t, lock) ==
    /\ pc[t] = "idle"
    /\ BeginCall(t)
    /\ semRef' = lock
    /\ loc' = [loc EXCEPT ![t] = Started(t, "set_lock", 1)]
    /\ pc' = [pc EXCEPT ![t] = "done"]
    /\ UNCHANGED <<urc, sem, devVars, ioVars>>

\* What the books keep of a finished call: the call, the frames it read, how it
\* ended, the queue it left, and whether the transport was idle when it ended.
Entry(t) ==
    LET l == loc[t]
    IN  [op |-> l.op, dev |-> l.dev, back |-> l.back, clear |-> l.clear,
         read |-> l.read,
         response |-> Msgs(l.response), ret |-> l.ret, exc |-> l.exc,
         queue |-> Msgs(urc), late |-> late,
         quiet |-> input[l.dev] = <<>>]

\* The call returns to its caller (or its exception reaches it): the locals die.
Finish(t) ==
    /\ pc[t] = "done"
    /\ log' = IF run.threads = {t} THEN Append(log, Entry(t)) ELSE log
    /\ pc' = [pc EXCEPT ![t] = "idle"]
    /\ loc' = [loc EXCEPT ![t] = Blank]
    /\ UNCHANGED <<classVars, devVars, ioVars, nextSeq, delivered, run, ncalls,
                   quality>>

\* ----------------------------------------------------------- specification
Next ==
    \/ \E d \in Devices : Inject(d)
    \/ \E t \in Threads, d \in Devices :
          \/ \E back \in Backs, error_pattern \in ErrorPatterns, timeout \in Timeouts :
                Send(t, d, back, error_pattern, timeout)
          \/ \E clear \in BOOLEAN : Urc(t, d, clear)
          \/ Verify(t, d)
          \/ Open(t, d) \/ Close(t, d) \/ PowerOn(t, d) \/ PowerDown(t, d)
    \/ \E t \in Threads :
          \/ Acquire(t) \/ Write(t) \/ ReadStart(t) \/ ReadLoop(t) \/ ReadGrace(t)
          \/ Classify(t)
          \/ UrcExtend(t) \/ UrcCheck(t) \/ UrcPop(t)
          \/ VerifyOpen(t) \/ VerifyFinish(t)
          \/ Finish(t)

Spec == Init /\ [][Next]_vars

\* A single thread calling.
SeqSpec == InitSeq /\ [][Next]_vars

\* A single call of a single thread, the thread scheduled again and again as long
\* as it can take a step.
Step(t) ==
    \/ Acquire(t) \/ Write(t) \/ ReadStart(t) \/ ReadLoop(t) \/ ReadGrace(t)
    \/ Classify(t)
    \/ UrcExtend(t) \/ UrcCheck(t) \/ UrcPop(t)
    \/ VerifyOpen(t) \/ VerifyFinish(t)
    \/ Finish(t)

FairSpec == InitOne /\ [][Next]_vars /\ \A t \in Threads : WF_vars(Step(t))

\* Concurrent threads that also call set_lock, against the terse modem.
InitLock ==
    /\ InitProgram
    /\ run = [threads |-> Threads, devices |-> {1}, calls |-> MaxSeqCalls,
              menu |-> {<<>>, Bracket(OK)}]
    /\ Connected

NextLock ==
    \/ Next
    \/ \E t \in Threads, lock \in Locks : SetLock(t, lock)

LockSpec == InitLock /\ [][NextLock]_vars

\* ------------------------------------------------------------------ claims
\* A send of thread t has ended, its read having returned.
SendRead(t) ==
    pc[t] = "done" /\ loc[t].op = "send" /\ loc[t].read = "returned"

\* The frame holds one of the markers of the list (None: no marker).
Marked(message, markers) ==
    markers # <<NoneText>> /\ \E j \in DOMAIN markers : Contains(markers[j], message)

\* Some frame of the batch thread t read holds one of its error markers.
ErrorInBatch(t) ==
    /\ loc[t].response # NoneFrames
    /\ \E i \in DOMAIN loc[t].response :
          Marked(loc[t].response[i].msg, loc[t].error_pattern)

\* The frames of the batch thread t read that hold its success marker.
Successes(t) ==
    {i \in DOMAIN loc[t].response : Contains(loc[t].back, loc[t].response[i].msg)}

\* Thread t holds the semaphore: it is between its acquire and the end of its
\* write+read cycle.
InCycle(t) == pc[t] \in {"write", "read", "r_loop", "r_grace", "u_extend"}

\* C1: at most one write+read cycle is in flight: no two threads are at the same
\* time between the acquire that precedes the write and the end of the read.
C1_OneCycle ==
    \A t \in Threads, u \in Threads : t # u => ~(InCycle(t) /\ InCycle(u))

C1_Witness ==
    \E t \in Threads, u \in Threads :
        /\ t # u
        /\ pc[t] = "r_loop" /\ loc[t].op = "send"
        /\ pc[u] = "acquire"

\* C2: a send begun while the device is not on ends in that same step with the
\* not-powered DeviceException, and nothing is written to any port.
C2_NotPowered ==
    [][\A t \in Threads :
          (pc[t] = "idle" /\ pc'[t] # "idle" /\ loc'[t].op = "send"
           /\ ~is_on[loc'[t].dev])
          => /\ pc'[t] = "done"
             /\ loc'[t].exc = Exc("DeviceException", "NotPowered", <<>>)
             /\ output' = output]_vars

C2_Witness ==
    \E t \in Threads :
        /\ pc[t] = "done" /\ loc[t].op = "send"
        /\ loc[t].exc.why = "NotPowered"
        /\ output[loc[t].dev] = <<>>

\* C3: when a frame of the batch holds an error marker, send raises the
\* command-failure error, wherever the frame stands and whether or not another
\* frame was claimed as the result.
C3_ErrorFirst ==
    \A t \in Threads :
        (SendRead(t) /\ ErrorInBatch(t))
        => /\ loc[t].exc.type = "DeviceException"
           /\ loc[t].exc.why = "CommandRejected"
           /\ loc[t].ret = RetNone

C3_Witness ==
    \E t \in Threads :
        /\ SendRead(t)
        /\ Msgs(loc[t].response) = <<OK, ERROR>>
        /\ loc[t].back = OK
        /\ loc[t].result_message = OK
        /\ loc[t].exc.why = "CommandRejected"

\* C4: when no frame of the batch holds an error marker and some frame holds the
\* success marker, send returns the first frame that holds it.
C4_FirstSuccess ==
    \A t \in Threads :
        (/\ SendRead(t)
         /\ loc[t].response # NoneFrames
         /\ loc[t].back # NoneText
         /\ ~ErrorInBatch(t)
         /\ Successes(t) # {})
        => /\ loc[t].exc = NoExc
           /\ loc[t].ret = RetText(loc[t].response[Min(Successes(t))].msg)

C4_Witness ==
    \E t \in Threads :
        /\ SendRead(t)
        /\ Msgs(loc[t].response) = <<RING, OK>>
        /\ loc[t].back = OK
        /\ loc[t].ret = RetText(OK)

\* The answer '\r\nFIRSTLINE\r\nSECONDLINE\r\n', read whole by a send of thread t
\* that passed no success marker.
TwoLines == Pattern \o FIRSTLINE \o Pattern \o SECONDLINE \o Pattern
TwoLinesRead(t) ==
    /\ SendRead(t)
    /\ loc[t].back = NoneText
    /\ loc[t].accumulated_data = TwoLines

\* The arrival stamps of the frames in the queue or popped from it.
Queued == {urc[i].seq : i \in DOMAIN urc} \cup {delivered[i] : i \in DOMAIN delivered}

\* C5 as stated: send without a success marker, answered
\* '\r\nFIRSTLINE\r\nSECONDLINE\r\n', returns "FIRSTLINE" and queues "SECONDLINE".
C5_Original ==
    \A t \in Threads :
        TwoLinesRead(t)
        => /\ loc[t].ret = RetText(FIRSTLINE)
           /\ \E i \in DOMAIN urc : urc[i].msg = SECONDLINE

\* C5 as amended: send without a success marker returns the first frame of the
\* batch when no frame holds an error marker; answered
\* '\r\nFIRSTLINE\r\nSECONDLINE\r\n' the batch is the one frame
\* "FIRSTLINE\r\nSECONDLINE", which send returns, and no frame joins the queue.
C5_FirstFrame ==
    \A t \in Threads :
        /\ (SendRead(t) /\ loc[t].back = NoneText /\ loc[t].response # NoneFrames
            /\ ~ErrorInBatch(t))
           => loc[t].ret = RetText(loc[t].response[1].msg)
        /\ TwoLinesRead(t)
           => /\ loc[t].ret = RetText(FIRSTLINE \o Pattern \o SECONDLINE)
              /\ \A i \in DOMAIN loc[t].response : loc[t].response[i].seq \notin Queued

C5_Witness ==
    \E t \in Threads :
        /\ TwoLinesRead(t)
        /\ loc[t].ret = RetText(FIRSTLINE \o Pattern \o SECONDLINE)

\* The queue before call i of a single-threaded run.
QueueBefore(i) == IF i = 1 THEN <<>> ELSE log[i - 1].queue

\* Call i of a single-threaded run is a send with success marker "OK" that began
\* with an empty queue, read the batch '\r\nOK\r\n\r\nRING\r\n' and left the
\* transport idle.
OkThenRing(i) ==
    /\ log[i].op = "send" /\ log[i].back = OK
    /\ log[i].response = <<OK, RING>>
    /\ QueueBefore(i) = <<>>
    /\ log[i].quiet

\* Call j is a call of the urc property, with no traffic since call i ended.
QuietDrain(i, j) ==
    /\ j \in DOMAIN log
    /\ log[j].op = "urc" /\ log[j].clear
    /\ log[j].late = log[i].late

\* C6: a send whose batch is '\r\nOK\r\n\r\nRING\r\n' returns "OK"; with no
\* further traffic the next call of urc returns ["RING"], and the call of urc
\* after that returns [].
C6_Drain ==
    \A i \in DOMAIN log :
        OkThenRing(i)
        => /\ log[i].ret = RetText(OK)
           /\ QuietDrain(i, i + 1)
              => /\ log[i + 1].ret.kind = "list"
                 /\ Msgs(log[i + 1].ret.list) = <<RING>>
           /\ (QuietDrain(i, i + 1) /\ QuietDrain(i, i + 2))
              => /\ log[i + 2].ret.kind = "list"
                 /\ log[i + 2].ret.list = <<>>

C6_Witness ==
    \E i \in DOMAIN log :
        /\ OkThenRing(i)
        /\ QuietDrain(i, i + 1) /\ QuietDrain(i, i + 2)
        /\ Msgs(log[i + 1].ret.list) = <<RING>>
        /\ log[i + 2].ret = RetList(<<>>)

\* The non-empty segments between the delimiters of a buffer.
Segments(s) == SplitFrom(s, 1, 1, Pattern)

\* The read of thread t has ended, by returning or by its timeout, having taken
\* every byte sent to the port: one or more frames, each in its own brackets.
ReadWhole(t) ==
    /\ pc[t] \notin {"idle", "acquire", "write", "read", "r_loop", "r_grace", "v_open"}
    /\ loc[t].read \in {"returned", "ReadTimeout"}
    /\ input[loc[t].dev] = <<>>
    /\ At(loc[t].accumulated_data, 1, Pattern)
    /\ EndsWith(loc[t].accumulated_data, Pattern)
    /\ Segments(loc[t].accumulated_data) # <<>>
    /\ Segments(loc[t].accumulated_data) = FindAll(loc[t].accumulated_data, Pattern)

\* C7: whatever the chunks in which a bracketed input arrives before the timeout,
\* the reader returns the frames of the whole input, in order.
C7_ChunkingInvariance ==
    \A t \in Threads :
        ReadWhole(t)
        => /\ loc[t].read = "returned"
           /\ loc[t].response # NoneFrames
           /\ Msgs(loc[t].response) = Segments(loc[t].accumulated_data)

\* Thread t is in read_full_response on an open port, and neither what it read
\* nor what was sent holds the pattern, nor will anything more be sent.
NoPatternRead(t) ==
    /\ pc[t] \in {"r_loop", "r_grace"}
    /\ is_open[loc[t].dev]
    /\ ~Contains(Pattern, loc[t].accumulated_data \o input[loc[t].dev])
    /\ late = MaxLate

\* C8: on an input that never holds the pattern the reader ends, with its
\* timeout; and a reader that returns has read the pattern.
C8_Terminates ==
    \A t \in Threads :
        /\ NoPatternRead(t) ~> (loc[t].read = "ReadTimeout")
        /\ [](loc[t].read = "returned"
              => Contains(Pattern, loc[t].accumulated_data))

C8_Witness ==
    \E t \in Threads :
        /\ loc[t].read = "ReadTimeout"
        /\ loc[t].accumulated_data = AT
        /\ is_open[loc[t].dev]
        /\ late = MaxLate

\* C9: when the read returns, no frame holds an error marker and no frame is
\* claimed as the result (a success marker was passed and no frame holds it, or
\* the reader found no frame), send raises the no-valid-response error.
C9_NoValidResponse ==
    \A t \in Threads :
        (/\ SendRead(t)
         /\ ~ErrorInBatch(t)
         /\ \/ loc[t].response = NoneFrames
            \/ loc[t].back # NoneText /\ Successes(t) = {})
        => /\ loc[t].exc = Exc("DeviceException", "NoValidResponse", <<>>)
           /\ loc[t].ret = RetNone

C9_Witness ==
    \E t \in Threads :
        /\ SendRead(t)
        /\ loc[t].back = OK
        /\ Msgs(loc[t].response) = <<FIRSTLINE \o Pattern \o SECONDLINE>>
        /\ loc[t].exc.why = "NoValidResponse"

C9_WitnessNone ==
    \E t \in Threads :
        /\ SendRead(t)
        /\ loc[t].response = NoneFrames
        /\ loc[t].exc.why = "NoValidResponse"

\* The arrival stamps of the frames urc has popped, then of those in the queue.
Delivery == delivered \o Seqs(urc)

\* C10: the queue keeps the order of arrival: a frame read from the transport
\* before another is never behind it in the queue, nor popped after it.
C10_ArrivalOrder ==
    \A i \in DOMAIN Delivery, j \in DOMAIN Delivery :
        i < j => Delivery[i] < Delivery[j]

\* A call of urc with clear by thread t has ended.
Drained(t) == pc[t] = "done" /\ loc[t].op = "urc" /\ loc[t].clear

\* s is a contiguous run of q.
RunOf(s, q) == \E i \in 0..Len(q) : i + Len(s) <= Len(q) /\ SubSeq(q, i + 1, i + Len(s)) = s

\* C11: a clearing drain is atomic, also with two concurrent takers: no taker
\* fails on a queue another taker emptied, and what a taker took is a contiguous
\* run of the frames drained, in their order.
C11_AtomicDrain ==
    \A t \in Threads :
        Drained(t)
        => /\ loc[t].exc.type # "IndexError"
           /\ RunOf(Seqs(loc[t].responses), delivered)

\* A call of urc by thread t has ended, the read inside it having failed: by its
\* timeout (nothing came, or no complete frame), or by the transport raising.
UrcReadFailed(t) ==
    /\ pc[t] = "done" /\ loc[t].op = "urc"
    /\ loc[t].read \in {"ReadTimeout", "Transport"}

\* C12: a failure of the read inside urc never reaches the caller: the call does
\* not end with the read's timeout nor with the transport's exception.
C12_ReadFailureSwallowed ==
    \A t \in Threads :
        UrcReadFailed(t)
        => /\ loc[t].exc.why \notin {"ReadTimeout", "Transport"}
           /\ loc[t].exc.type # "PortNotOpenError"

\* What a terse modem sends back: nothing, or a result frame.
Terse == {<<>>, Bracket(OK)}

\* Concurrent threads against the terse modem; as long as some thread can take a
\* step, some thread is scheduled.
InitPair ==
    /\ InitProgram
    /\ run = [threads |-> Threads, devices |-> {1}, calls |-> MaxCalls, menu |-> Terse]
    /\ Connected

FairPairSpec == InitPair /\ [][Next]_vars /\ WF_vars(\E t \in Threads : Step(t))

\* The threads that hold semaphore l.
Holders(l) == {t \in Threads : InCycle(t) /\ loc[t].lock = l}

\* C13: the lock is free whenever no call is inside its write+read cycle, however
\* the calls before ended; a caller waiting for the lock gets it, and every call
\* begun ends.
C13_LockFreed ==
    /\ [](\A l \in Locks : sem[l] = 1 - Cardinality(Holders(l)))
    /\ \A t \in Threads : (pc[t] # "idle") ~> (pc[t] = "idle")

C13_Witness ==
    \E t \in Threads, u \in Threads :
        /\ t # u
        /\ pc[t] = "done" /\ loc[t].op = "send"
        /\ loc[t].read \in {"ReadTimeout", "Transport"}
        /\ loc[t].exc.type = "DeviceException"
        /\ InCycle(u)
        /\ sem[semRef] = 0

\* C14: whatever the transport raises during send's write or read reaches the
\* caller as a DeviceException, the type of the protocol-level errors; send ends
\* with no other exception type.
C14_OneTaxonomy ==
    \A t \in Threads :
        (pc[t] = "done" /\ loc[t].op = "send")
        => /\ loc[t].exc.type \in {"None", "DeviceException"}
           /\ loc[t].read = "Transport"
              => /\ loc[t].exc.type = "DeviceException"
                 /\ loc[t].ret = RetNone

\* A write on a closed port, and a read on a port closed meanwhile.
C14_Witness ==
    \E t \in Threads :
        /\ pc[t] = "done" /\ loc[t].op = "send"
        /\ loc[t].read = "Transport"
        /\ output[loc[t].dev] = <<>>
        /\ loc[t].exc.type = "DeviceException"

C14_WitnessRead ==
    \E t \in Threads :
        /\ pc[t] = "done" /\ loc[t].op = "send"
        /\ loc[t].read = "Transport"
        /\ output[loc[t].dev] # <<>>
        /\ loc[t].exc.type = "DeviceException"

\* Call i of a single-threaded run is a power_down that completed.
PoweredDown(i) == log[i].op = "power_down" /\ log[i].exc = NoExc

\* C15: after power_down completes the connection is no longer powered: the send
\* that follows it is refused with the not-powered error.
C15_SendAfterPowerDown ==
    \A i \in DOMAIN log :
        (PoweredDown(i) /\ i + 1 \in DOMAIN log /\ log[i + 1].op = "send")
        => log[i + 1].exc = Exc("DeviceException", "NotPowered", <<>>)

\* Thread t calls close in this step.
Closes(t) == pc[t] = "idle" /\ pc'[t] = "done" /\ loc'[t].op = "close"

\* C16: close succeeds whatever the state of the connection and leaves it
\* closed; on a connection already closed it changes nothing and raises nothing.
C16_CloseIdempotent ==
    [][\A t \in Threads :
          Closes(t)
          => /\ loc'[t].exc = NoExc
             /\ ~is_open'[loc'[t].dev]
             /\ ~is_open[loc'[t].dev]
                => <<classVars, devVars, ioVars>>' = <<classVars, devVars, ioVars>>]_vars

\* Two calls of close, the second on the connection the first closed.
C16_Witness ==
    \E t \in Threads, u \in Threads :
        /\ t # u
        /\ pc[t] = "done" /\ loc[t].op = "close" /\ loc[t].exc = NoExc
        /\ pc[u] = "done" /\ loc[u].op = "close" /\ loc[u].exc = NoExc
        /\ ~is_open[loc[t].dev]

\* Thread t calls open in this step.
Opens(t) == pc[t] = "idle" /\ pc'[t] = "done" /\ loc'[t].op = "open"

\* C17: open on a connection already open raises DeviceException and leaves it
\* open; open on a closed connection raises nothing and opens it.
C17_OpenTwice ==
    [][\A t \in Threads :
          Opens(t)
          => /\ is_open'[loc'[t].dev]
             /\ IF is_open[loc'[t].dev]
                THEN /\ loc'[t].exc.type = "DeviceException"
                     /\ <<classVars, devVars, ioVars>>' = <<classVars, devVars, ioVars>>
                ELSE loc'[t].exc = NoExc]_vars

\* Two calls of open, the second refused.
C17_Witness ==
    \E t \in Threads, u \in Threads :
        /\ t # u
        /\ pc[t] = "done" /\ loc[t].op = "open" /\ loc[t].exc = NoExc
        /\ pc[u] = "done" /\ loc[u].op = "open"
        /\ loc[u].exc = Exc("DeviceException", "OpenFailed", <<>>)
        /\ is_open[loc[u].dev]

\* The read of thread t has ended with a buffer that grew during the grace
\* sleep (it is longer than when it last looked complete), ends with the pattern
\* again, and nothing more was sent.
SettledAfterGrace(t) ==
    /\ loc[t].read \in {"returned", "ReadTimeout"}
    /\ loc[t].current_length > 0
    /\ Len(loc[t].accumulated_data) > loc[t].current_length
    /\ Tentative(loc[t].accumulated_data, TRUE)
    /\ input[loc[t].dev] = <<>>

\* C18: when bytes arrive during the grace sleep the reader evaluates the
\* enlarged buffer again: if it ends with the pattern and nothing more arrives,
\* the read returns its frames and does not end with the timeout.
C18_ReEvaluates ==
    \A t \in Threads :
        SettledAfterGrace(t)
        => /\ loc[t].read = "returned"
           /\ Msgs(loc[t].response) = FindAll(loc[t].accumulated_data, Pattern)

\* Thread t is in send's classification loop, at a frame it will append to the
\* queue.
Appending(t) ==
    /\ pc[t] = "classify"
    /\ loc[t].response # NoneFrames
    /\ loc[t].idx <= Len(loc[t].response)
    /\ ClassOf(loc[t].response[loc[t].idx].msg, loc[t].result_message,
               loc[t].back, loc[t].error_pattern) = "urc"

\* Thread t is in urc, about to extend the queue or to pop from it.
Draining(t) == pc[t] \in {"u_extend", "u_pop"}

\* C19: no thread appends to the queue in send's classification while another
\* thread appends to it from another send, or extends or drains it in urc.
C19_QueueExclusive ==
    \A t \in Threads, u \in Threads :
        t # u => ~(Appending(t) /\ (Appending(u) \/ Draining(u)))

\* One thread on its own, against every answer of the modem.
InitSolo ==
    /\ InitProgram
    /\ run = [threads |-> {1}, devices |-> {1}, calls |-> MaxCalls, menu |-> Responses]
    /\ Connected

SoloSpec == InitSolo /\ [][Next]_vars

\* The frames of r whose index is in S, in the order of r.
RECURSIVE KeepFrom(_, _, _)
KeepFrom(r, i, S) ==
    IF i > Len(r) THEN <<>>
    ELSE (IF i \in S THEN <<r[i]>> ELSE <<>>) \o KeepFrom(r, i + 1, S)

\* The batch a send of thread t read (no frame when the reader returned None),
\* and its classes: the frames that hold an error marker; the first of the
\* others that satisfies the success rule; the rest.
Batch(t) == IF loc[t].response = NoneFrames THEN <<>> ELSE Msgs(loc[t].response)
ErrorFrames(t) ==
    {i \in DOMAIN Batch(t) : Marked(Batch(t)[i], loc[t].error_pattern)}
Eligible(t) ==
    {i \in DOMAIN Batch(t) \ ErrorFrames(t) :
        loc[t].back = NoneText \/ Contains(loc[t].back, Batch(t)[i])}
ResultFrames(t) == IF Eligible(t) = {} THEN {} ELSE {Min(Eligible(t))}
UnsolicitedFrames(t) == (DOMAIN Batch(t) \ ErrorFrames(t)) \ ResultFrames(t)

\* The queue as the call before left it, in a single-threaded run.
QueueLeft == IF log = <<>> THEN <<>> ELSE log[Len(log)].queue

\* C20: a send scans its whole batch in order, also past an error frame; a frame
\* is the error, the result (the first frame without an error marker that
\* satisfies the success rule) or unsolicited; the queue after the call is the
\* queue before it followed by the unsolicited frames of the batch, in order.
C20_Classification ==
    \A t \in Threads :
        SendRead(t)
        => /\ loc[t].idx = Len(Batch(t)) + 1
           /\ Msgs(urc) = QueueLeft \o KeepFrom(Batch(t), 1, UnsolicitedFrames(t))
           /\ loc[t].result_message =
                 IF ResultFrames(t) = {} THEN NoneText
                 ELSE Batch(t)[Min(ResultFrames(t))]
           /\ (loc[t].error_message # <<>>) = (ErrorFrames(t) # {})
           /\ loc[t].error_message # <<>>
              => \E i \in ErrorFrames(t) :
                    /\ loc[t].error_message = Batch(t)[i]
                    /\ \A j \in ErrorFrames(t) : j <= i

\* A batch of a result frame, an error frame and then an unsolicited frame, read
\* with a frame already queued.
C20_Witness ==
    \E t \in Threads :
        /\ SendRead(t)
        /\ loc[t].back = OK
        /\ Batch(t) = <<OK, ERROR, RING>>
        /\ loc[t].error_message = ERROR
        /\ QueueLeft # <<>>
        /\ Msgs(urc) = QueueLeft \o <<RING>>

\* A send of thread t has ended, the read inside it having failed.
SendFailed(t) ==
    /\ pc[t] = "done" /\ loc[t].op = "send"
    /\ loc[t].read \in {"ReadTimeout", "Transport"}

\* C21: a send whose read times out, or whose transport raises, raises and
\* returns nothing, and the queue is what it was before the call.
C21_HardFailure ==
    \A t \in Threads :
        SendFailed(t)
        => /\ loc[t].exc.type = "DeviceException"
           /\ loc[t].exc.why = loc[t].read
           /\ loc[t].ret = RetNone
           /\ Msgs(urc) = QueueLeft

\* A read that times out with a complete frame in its buffer, a frame queued
\* before the call.
C21_Witness ==
    \E t \in Threads :
        /\ SendFailed(t)
        /\ loc[t].read = "ReadTimeout"
        /\ FindAll(loc[t].accumulated_data, Pattern) # <<>>
        /\ QueueLeft # <<>>
        /\ Msgs(urc) = QueueLeft

\* The payloads without the pattern, of payload symbols and lone "\r" and "\n";
\* the lists of them; the buffer DELIM p1 DELIM DELIM p2 DELIM ... of a list.
Symbols == {"OK", CR, LF}
Payloads ==
    {p \in UNION {[1..n -> Symbols] : n \in 1..MaxPayload} : ~Contains(Pattern, p)}
PayloadLists == UNION {[1..k -> Payloads] : k \in 1..MaxFrames}
RECURSIVE Wire(_)
Wire(ps) == IF ps = <<>> THEN <<>> ELSE Bracket(Head(ps)) \o Wire(Tail(ps))

\* A send in read_full_response, after its grace sleep, with a buffer of adjacent
\* frames read and nothing more to come: the segmentation is its next step.
InitSeg ==
    /\ urc = <<>>
    /\ sem = [l \in Locks |-> IF l = "initial" THEN 0 ELSE 1]
    /\ semRef = "initial"
    /\ is_rpi = FALSE
    /\ is_on = [d \in Devices |-> TRUE]
    /\ pulses = [d \in Devices |-> 0]
    /\ is_open = [d \in Devices |-> d = 1]
    /\ input = [d \in Devices |-> <<>>]
    /\ output = [d \in Devices |-> IF d = 1 THEN <<"CMD">> ELSE <<>>]
    /\ late = 0
    /\ pc = [t \in Threads |-> IF t = 1 THEN "r_grace" ELSE "idle"]
    /\ \E ps \in PayloadLists :
          loc = [t \in Threads |->
                    IF t = 1
                    THEN [Started(t, "send", 1) EXCEPT
                             !.timeout = TimeoutTicks,
                             !.accumulated_data = Wire(ps),
                             !.response_started = TRUE,
                             !.current_length = Len(Wire(ps)),
                             !.elapsed = Slept(Slept(0, GraceTicks), GraceTicks)]
                    ELSE Blank]
    /\ nextSeq = 1
    /\ delivered = <<>>
    /\ log = <<>>
    /\ ncalls = 1
    /\ quality = NoCompare
    /\ run = [threads |-> {1}, devices |-> {1}, calls |-> MaxSeqCalls, menu |-> Terse]

SegSpec == InitSeg /\ [][Next]_vars

\* C22: a final buffer DELIM p1 DELIM DELIM p2 DELIM ... DELIM pk DELIM of
\* non-empty payloads without the delimiter is segmented into p1, ..., pk.
C22_AdjacentFrames ==
    \A t \in Threads :
        loc[t].read = "returned"
        => \A ps \in PayloadLists :
              loc[t].accumulated_data = Wire(ps) => Msgs(loc[t].response) = ps

\* Two adjacent frames, the first payload ending with "\r", the second beginning
\* with "\n".
C22_Witness ==
    \E t \in Threads :
        /\ loc[t].read = "returned"
        /\ loc[t].accumulated_data = Wire(<<(<<"OK", CR>>), (<<LF, "OK">>)>>)
        /\ Msgs(loc[t].response) = <<(<<"OK", CR>>), (<<LF, "OK">>)>>

\* What a returned value reads as now: the alias of the queue is the queue.
ReadsNow(ret) == IF ret.kind = "alias" THEN Msgs(urc) ELSE Msgs(ret.list)

\* Call i of a single-threaded run is a call of urc with clear=False that
\* returned.
Peeked(i) == log[i].op = "urc" /\ ~log[i].clear /\ log[i].exc = NoExc

\* C23: what urc returned with clear=False is a snapshot: it still reads as the
\* queue did when the call returned, whatever later calls did to the queue.
C23_Snapshot ==
    \A i \in DOMAIN log :
        Peeked(i) => ReadsNow(log[i].ret) = log[i].queue

\* Thread t calls power_on in this step.
PowersOn(t) == pc[t] = "idle" /\ pc'[t] = "done" /\ loc'[t].op = "power_on"

\* C24: power_on on a device that is already on raises DeviceException and
\* leaves the power state and the power key as they were.
C24_PowerOnTwice ==
    [][\A t \in Threads :
          (PowersOn(t) /\ is_on[loc'[t].dev])
          => /\ loc'[t].exc.type = "DeviceException"
             /\ is_on' = is_on
             /\ pulses' = pulses]_vars

\* Two SignalQuality values and the evaluation of self < other on them; the
\* device layer is not called.
InitCompare ==
    /\ urc = <<>>
    /\ sem = [l \in Locks |-> 1]
    /\ semRef = "initial"
    /\ is_rpi = FALSE
    /\ is_on = [d \in Devices |-> TRUE]
    /\ pulses = [d \in Devices |-> 0]
    /\ is_open = [d \in Devices |-> FALSE]
    /\ input = [d \in Devices |-> <<>>]
    /\ output = [d \in Devices |-> <<>>]
    /\ late = 0
    /\ pc = [t \in Threads |-> "idle"]
    /\ loc = [t \in Threads |-> Blank]
    /\ nextSeq = 1
    /\ delivered = <<>>
    /\ log = <<>>
    /\ ncalls = 0
    /\ run = [threads |-> {}, devices |-> {}, calls |-> 0, menu |-> {}]
    /\ \E a \in SignalQualities, b \in SignalQualities :
          quality = [self |-> a, other |-> b, result |-> "pending"]

Compare ==
    /\ quality.result = "pending"
    /\ quality' = [quality EXCEPT !.result = Lt(quality.self, quality.other)]
    /\ UNCHANGED <<classVars, devVars, ioVars, pc, loc, nextSeq, delivered, log,
                   run, ncalls>>

CompareSpec == InitCompare /\ [][Compare]_vars

\* A value whose strength or bit error rate is undefined.
Undefined(q) == q.strength = UndefinedStrength \/ q.bit_error_rate = UndefinedBer

\* C25: self < other raises TypeError across signal types; within one type, of
\* two values of which exactly one is undefined the undefined one is less and
\* the defined one is not; of two defined values the one of lower strength is
\* less, and at equal strength the one of higher bit error rate.
C25_SignalOrder ==
    LET a == quality.self
        b == quality.other
    IN  quality.result \notin {"none", "pending"}
        => /\ (a.is_rscp # b.is_rscp) = (quality.result = "TypeError")
           /\ (a.is_rscp = b.is_rscp /\ Undefined(a) /\ ~Undefined(b))
              => quality.result = "True"
           /\ (a.is_rscp = b.is_rscp /\ ~Undefined(a) /\ Undefined(b))
              => quality.result = "False"
           /\ (a.is_rscp = b.is_rscp /\ ~Undefined(a) /\ ~Undefined(b))
              => (quality.result = "True")
                 = (\/ a.strength < b.strength
                    \/ a.strength = b.strength /\ a.bit_error_rate > b.bit_error_rate)

\* An undefined bit error rate on the stronger signal: still the lesser value.
C25_Witness ==
    /\ quality.self = SignalQuality(-51, FALSE, UndefinedBer)
    /\ quality.other = SignalQuality(-113, FALSE, 0)
    /\ quality.result = "True"

\* The frames of the bytes that waited in the input buffer when thread t wrote
\* its command, as far as thread t has read them.
WaitingFrames(t) ==
    FindAll(Slice(loc[t].accumulated_data, 1,
                  Min({loc[t].waiting, Len(loc[t].accumulated_data)})), Pattern)

\* C26: the frame a send returns as its result is none of the frames that
\* waited in the input buffer before the send wrote its command.
C26_FreshResult ==
    \A t \in Threads :
        (SendRead(t) /\ loc[t].ret.kind = "text")
        => \A i \in ResultFrames(t) : i > Len(WaitingFrames(t))

\* Frame m is with the caller of thread t or kept: it is the result returned,
\* among the frames returned, carried in the error raised, or in the unsolicited
\* queue.
Accounted(t, m) ==
    \/ loc[t].ret.kind = "text" /\ loc[t].ret.text = m
    \/ loc[t].ret.kind = "list" /\ \E i \in DOMAIN loc[t].ret.list : loc[t].ret.list[i].msg = m
    \/ loc[t].exc # NoExc /\ loc[t].exc.msg = m
    \/ \E i \in DOMAIN urc : urc[i].msg = m

\* The frames complete in the bytes thread t consumed from the transport.
Consumed(t) == FindAll(loc[t].accumulated_data, Pattern)

\* C27: when a send or an unsolicited-message access ends, every frame complete
\* in the bytes it consumed is returned, carried in the error raised, or in the
\* unsolicited queue.
C27_NoFrameDropped ==
    \A t \in Threads :
        (pc[t] = "done" /\ loc[t].op \in {"send", "urc"})
        => \A i \in DOMAIN Consumed(t) : Accounted(t, Consumed(t)[i])

\* C28: with set_lock called at any moment, there are never two threads inside
\* a write+read cycle at the same time.
C28_OneCycleAfterSetLock ==
    \A t \in Threads, u \in Threads : t # u => ~(InCycle(t) /\ InCycle(u))

\* One thread calling on two Device instances, each with its own port.
InitDuo ==
    /\ InitProgram
    /\ run = [threads |-> {1}, devices |-> Devices, calls |-> MaxCalls, menu |-> Session]
    /\ Connected

DuoSpec == InitDuo /\ [][Next]_vars

\* self.__urc on instance d after call i of a single-threaded run: no instance
\* binds a list of its own, the name resolves to the class attribute of line 25.
QueueOf(d, i) == IF i = 0 THEN <<>> ELSE log[i].queue

\* The frames call i read from the transport of its own instance.
OwnFrames(i) == IF log[i].read = "returned" THEN log[i].response ELSE <<>>

\* C29: with two Device instances, a send or an unsolicited-message access on
\* one instance leaves the queue of the other instance as it was, and the first
\* draining access on an instance returns only frames read from that instance's
\* own transport.
C29_QueuePerInstance ==
    \A i \in DOMAIN log :
        log[i].op \in {"send", "urc"}
        => /\ \A d \in Devices \ {log[i].dev} : QueueOf(d, i) = QueueOf(d, i - 1)
           /\ (/\ log[i].op = "urc" /\ log[i].ret.kind = "list"
               /\ \A j \in 1..(i - 1) : log[j].dev # log[i].dev)
              => \A k \in DOMAIN log[i].ret.list :
                    \E n \in DOMAIN OwnFrames(i) :
                        OwnFrames(i)[n] = log[i].ret.list[k].msg

\* C30: when a verify ends, by returning or by raising, the port is open if and
\* only if it was open when the verify began.
C30_VerifyRestores ==
    \A t \in Threads :
        (pc[t] = "done" /\ loc[t].op = "verify")
        => is_open[loc[t].dev] = loc[t].was_open
====
